---- MODULE Spec2Model ----
(***************************************************************************)
(* Model of the LZ77R compressor library (Rust/src/lz77.rs): header and    *)
(* token emission, the sliding-window match finder, the greedy compression *)
(* loop and the two public entry points compress_bytes and compress_str.   *)
(* Positions are 0-based as in the source; a slice element input[i] of the *)
(* source is input[i + 1] here.                                            *)
(***************************************************************************)
EXTENDS Integers, Sequences, FiniteSets, TLC

VARIABLES
    input,          \* the input buffer (&[u8])
    window_size,    \* parameter window_size: usize
    max_match_len,  \* parameter max_match_len: usize
    usize_bytes,    \* size_of::<usize>() of the build target
    api,            \* which public operation was called: "bytes" or "str"
    pc,             \* position in the call
    pos,            \* compress: pos / find_longest_match: pos
    bytes_written,  \* compress: bytes_written
    header_written, \* compress_bytes: bytes_written after write_header
    out,            \* the bytes the sink has received
    sink_err,       \* the error the sink returned from a write_all, or "none"
    attempts,       \* number of write_all calls issued to the sink
    failed_at,      \* index of the write_all call that failed (0: none)
    out_at_fail,    \* contents of the sink when the failing write_all returned
    tokens,         \* the tokens whose emit_*_token call returned Ok
    consulted,      \* positions at which find_longest_match was called
    header_calls,   \* number of write_header calls
    header_len,     \* bytes in the sink when write_header returned Ok
    last_match,     \* result of the latest find_longest_match call
    result          \* the io::Result<u64> the public operation returned

vars == <<input, window_size, max_match_len, usize_bytes, api, pc, pos,
          bytes_written, header_written, out, sink_err, attempts, failed_at,
          out_at_fail, tokens, consulted, header_calls, header_len,
          last_match, result>>

-----------------------------------------------------------------------------
(* Bounds of the model *)

MaxLen == 7
MaxPartial == 1

Alphabet == {97, 98}
Inputs == UNION {[1..n -> Alphabet] : n \in 0..MaxLen}
WindowSizes == {0, 2, 4096}
MaxMatchLens == {0, 2, 3, 258}
UsizeWidths == {4, 8}
ErrKinds == {"BrokenPipe", "StorageFull"}

-----------------------------------------------------------------------------
(* Constants of the source *)

LZ77_MAGIC == <<76, 90, 55, 55, 82>>
LZ77_MIN_MATCH_LEN == 3
LZ77_TOKEN_LITERAL_MAGIC == 0
LZ77_TOKEN_REFERENCE_MAGIC == 1

-----------------------------------------------------------------------------
(* Integer helpers *)

Min(a, b) == IF a < b THEN a ELSE b

\* n.to_le_bytes() for an unsigned integer type of `width` bytes
RECURSIVE to_le_bytes(_, _)
to_le_bytes(n, width) ==
    IF width = 0 THEN <<>> ELSE <<n % 256>> \o to_le_bytes(n \div 256, width - 1)

\* `x as u16`
as_u16(x) == x % 65536

RECURSIVE Flatten(_)
Flatten(bufs) == IF bufs = <<>> THEN <<>> ELSE Head(bufs) \o Flatten(Tail(bufs))

-----------------------------------------------------------------------------
(* Header and token emission: the write_all calls each function issues, in *)
(* order, and the count it returns on success.                             *)

\* write_header: magic, then window_size.to_le_bytes(), then
\* max_match_len.to_le_bytes(), both parameters being usize
write_header_calls(ws, mml, width) ==
    <<LZ77_MAGIC, to_le_bytes(ws, width), to_le_bytes(mml, width)>>

write_header_ok == 10

literal_token(p, b) ==
    [kind |-> "lit", pos |-> p, offset |-> 0, length |-> 1, byte |-> b]

reference_token(p, offset, length) ==
    [kind |-> "ref", pos |-> p, offset |-> offset, length |-> length, byte |-> 0]

emit_literal_token_calls(literal) == << <<LZ77_TOKEN_LITERAL_MAGIC, literal>> >>

emit_literal_token_ok == 2

emit_reference_token_calls(offset, length) ==
    << <<LZ77_TOKEN_REFERENCE_MAGIC>>, to_le_bytes(offset, 2), to_le_bytes(length, 2) >>

emit_reference_token_ok == 5

token_calls(tok) ==
    IF tok.kind = "lit" THEN emit_literal_token_calls(tok.byte)
    ELSE emit_reference_token_calls(tok.offset, tok.length)

token_ok(tok) ==
    IF tok.kind = "lit" THEN emit_literal_token_ok ELSE emit_reference_token_ok

RECURSIVE tokens_calls(_)
tokens_calls(toks) ==
    IF toks = <<>> THEN <<>> ELSE token_calls(Head(toks)) \o tokens_calls(Tail(toks))

RECURSIVE tokens_ok(_)
tokens_ok(toks) ==
    IF toks = <<>> THEN 0 ELSE token_ok(Head(toks)) + tokens_ok(Tail(toks))

\* The tokens of toks whose emit call has returned Ok when write_all call k
\* of the iteration fails.
RECURSIVE emitted_before(_, _)
emitted_before(toks, k) ==
    IF toks = <<>> THEN <<>>
    ELSE IF k <= Len(token_calls(Head(toks))) THEN <<>>
    ELSE <<Head(toks)>> \o emitted_before(Tail(toks), k - Len(token_calls(Head(toks))))

\* A run of write_all calls, each followed by `?`: call k fails after the sink
\* took p bytes of its buffer (k = 0: no call fails). An error returns at once.
write_all_seq_ignoring_errors(calls, k, p) ==
    IF k = 0 THEN [bytes |-> Flatten(calls), attempts |-> Len(calls)]
    ELSE [bytes |-> Flatten(SubSeq(calls, 1, k - 1)) \o SubSeq(calls[k], 1, p)
                    \o Flatten(SubSeq(calls, k + 1, Len(calls))),
          attempts |-> Len(calls)]

write_all_seq(calls, k, p) ==
    IF k = 0 THEN [bytes |-> Flatten(calls), attempts |-> Len(calls)]
    ELSE [bytes |-> Flatten(SubSeq(calls, 1, k - 1)) \o SubSeq(calls[k], 1, p),
          attempts |-> k]

-----------------------------------------------------------------------------
(* Match finding *)

max_possible_uncapped(max_len, len, p) == max_len

\* let max_possible = max_len.min(input.len() - pos)
max_possible(max_len, len, p) == Min(max_len, len - p)

\* The while loop of compute_match_length. reads collects every index of
\* input the loop evaluates; an index >= input.len() panics.
RECURSIVE cml_loop(_, _, _, _, _, _)
cml_loop(inp, candidate, p, maxp, length, reads) ==
    IF length < maxp
    THEN LET i == candidate + length
             j == p + length
         IN  IF i >= Len(inp) \/ j >= Len(inp)
             THEN [length |-> length, reads |-> reads \cup {i, j}, panicked |-> TRUE]
             ELSE IF inp[i + 1] = inp[j + 1]
                  THEN cml_loop(inp, candidate, p, maxp, length + 1, reads \cup {i, j})
                  ELSE [length |-> length, reads |-> reads \cup {i, j}, panicked |-> FALSE]
    ELSE [length |-> length, reads |-> reads, panicked |-> FALSE]

compute_match_length(inp, candidate, p, max_len) ==
    cml_loop(inp, candidate, p, max_possible(max_len, Len(inp), p), 0, {})

window_start_whole_prefix(p, ws) == 0

\* pos.saturating_sub(window_size)
window_start(p, ws) == IF ws > p THEN 0 ELSE p - ws

replaces_best_on_tie(length, best_length) == length >= best_length

\* if length > best_length
replaces_best(length, best_length) == length > best_length

\* for candidate in window_start..pos
RECURSIVE flm_loop(_, _, _, _, _)
flm_loop(inp, p, mml, candidate, best) ==
    IF candidate >= p THEN best
    ELSE LET r == compute_match_length(inp, candidate, p, mml)
             rd == best.reads \cup r.reads
         IN  IF r.panicked
             THEN [best EXCEPT !.reads = rd, !.panicked = TRUE]
             ELSE IF replaces_best(r.length, best.length)
                  THEN flm_loop(inp, p, mml, candidate + 1,
                                [offset |-> p - candidate, length |-> r.length,
                                 reads |-> rd, panicked |-> FALSE])
                  ELSE flm_loop(inp, p, mml, candidate + 1, [best EXCEPT !.reads = rd])

find_longest_match(inp, p, ws, mml) ==
    flm_loop(inp, p, mml, window_start(p, ws),
             [offset |-> 0, length |-> 0, reads |-> {}, panicked |-> FALSE])

NoMatch == [pos |-> 0, offset |-> 0, length |-> 0, reads |-> {}, panicked |-> FALSE]

match_at(p, m) ==
    [pos |-> p, offset |-> m.offset, length |-> m.length, reads |-> m.reads,
     panicked |-> m.panicked]

-----------------------------------------------------------------------------
(* One iteration of the while loop of compress: the match found at pos, the *)
(* tokens the iteration emits, and pos after it.                           *)

compress_iter_without_literal(inp, p, ws, mml) ==
    LET m == find_longest_match(inp, p, ws, mml)
    IN  IF m.length >= LZ77_MIN_MATCH_LEN
        THEN [m |-> m,
              toks |-> <<reference_token(p, as_u16(m.offset), as_u16(m.length))>>,
              pos |-> p + m.length]
        ELSE [m |-> m, toks |-> <<literal_token(p, inp[p + 1])>>, pos |-> p + 1]

compress_iter(inp, p, ws, mml) ==
    LET m == find_longest_match(inp, p, ws, mml)
    IN  IF m.length >= LZ77_MIN_MATCH_LEN
        THEN LET ref == reference_token(p, as_u16(m.offset), as_u16(m.length))
                 np == p + m.length
             IN  IF np < Len(inp)
                 THEN [m |-> m, toks |-> <<ref, literal_token(np, inp[np + 1])>>,
                       pos |-> np + 1]
                 ELSE [m |-> m, toks |-> <<ref>>, pos |-> np]
        ELSE [m |-> m, toks |-> <<literal_token(p, inp[p + 1])>>, pos |-> p + 1]

-----------------------------------------------------------------------------
(* Results *)

Pending == [state |-> "none", n |-> 0, err |-> "none"]
Ok(n) == [state |-> "ok", n |-> n, err |-> "none"]
Err(e) == [state |-> "err", n |-> 0, err |-> e]

PartialLens(buf) == 0..Min(Len(buf) - 1, MaxPartial)

-----------------------------------------------------------------------------
(* The state after construction: a call of compress_bytes or compress_str  *)
(* about to run on some input and parameters.                              *)

InitCommon ==
    /\ window_size \in WindowSizes
    /\ max_match_len \in MaxMatchLens
    /\ bytes_written = 0
    /\ header_written = 0
    /\ out = <<>>
    /\ sink_err = "none"
    /\ attempts = 0
    /\ failed_at = 0
    /\ out_at_fail = <<>>
    /\ tokens = <<>>
    /\ consulted = {}
    /\ header_calls = 0
    /\ header_len = 0
    /\ last_match = NoMatch
    /\ result = Pending

Init ==
    /\ InitCommon
    /\ input \in Inputs
    /\ api \in {"bytes", "str"}
    \* compress_str serialises no usize: one width stands for both there
    /\ usize_bytes \in IF api = "bytes" THEN UsizeWidths ELSE {8}
    /\ pc = "entry"
    /\ pos = 0

\* The sink's part in a run of write_all calls: which call fails, after how
\* many bytes, with which error; and the effect on the sink-side variables.
SinkTakes(calls, k, p, e) ==
    LET w == write_all_seq(calls, k, p)
    IN  /\ out' = out \o w.bytes
        /\ attempts' = attempts + w.attempts
        /\ IF k = 0
           THEN UNCHANGED <<sink_err, failed_at, out_at_fail>>
           ELSE /\ sink_err' = e
                /\ failed_at' = attempts + k
                /\ out_at_fail' = out \o Flatten(SubSeq(calls, 1, k - 1))
                                      \o SubSeq(calls[k], 1, p)

SinkChoices(calls) ==
    {<<0, 0, "none">>} \cup
    {<<k, p, e>> : k \in 1..Len(calls), p \in 0..MaxPartial, e \in ErrKinds}

\* compress_bytes up to the call of compress: write_header and its `?`
CompressBytesEntry ==
    /\ pc = "entry"
    /\ api = "bytes"
    /\ LET calls == write_header_calls(window_size, max_match_len, usize_bytes)
       IN  \E c \in SinkChoices(calls) :
             /\ c[1] > 0 => c[2] \in PartialLens(calls[c[1]])
             /\ SinkTakes(calls, c[1], c[2], c[3])
             /\ header_calls' = header_calls + 1
             /\ IF c[1] = 0
                THEN /\ header_written' = 0 + write_header_ok
                     /\ header_len' = Len(out')
                     /\ pc' = "compress"
                     /\ UNCHANGED result
                ELSE /\ result' = Err(c[3])
                     /\ pc' = "done"
                     /\ UNCHANGED <<header_written, header_len>>
    /\ pos' = 0
    /\ bytes_written' = 0
    /\ UNCHANGED <<input, window_size, max_match_len, usize_bytes, api, tokens,
                   consulted, last_match>>

\* compress_str up to the call of compress
CompressStrEntry ==
    /\ pc = "entry"
    /\ api = "str"
    /\ pc' = "compress"
    /\ pos' = 0
    /\ bytes_written' = 0
    /\ UNCHANGED <<input, window_size, max_match_len, usize_bytes, api,
                   header_written, out, sink_err, attempts, failed_at,
                   out_at_fail, tokens, consulted, header_calls, header_len,
                   last_match, result>>

\* One iteration of `while pos < input.len()` in compress
CompressLoop ==
    /\ pc = "compress"
    /\ pos < Len(input)
    /\ LET it == compress_iter(input, pos, window_size, max_match_len)
           calls == tokens_calls(it.toks)
       IN  /\ last_match' = match_at(pos, it.m)
           /\ consulted' = consulted \cup {pos}
           /\ \E c \in SinkChoices(calls) :
                /\ c[1] > 0 => c[2] \in PartialLens(calls[c[1]])
                /\ SinkTakes(calls, c[1], c[2], c[3])
                /\ IF c[1] = 0
                   THEN /\ tokens' = tokens \o it.toks
                        /\ bytes_written' = bytes_written + tokens_ok(it.toks)
                        /\ pos' = it.pos
                        /\ UNCHANGED <<pc, result>>
                   ELSE /\ tokens' = tokens \o emitted_before(it.toks, c[1])
                        /\ result' = Err(c[3])
                        /\ pc' = "done"
                        /\ UNCHANGED <<bytes_written, pos>>
    /\ UNCHANGED <<input, window_size, max_match_len, usize_bytes, api,
                   header_written, header_calls, header_len>>

\* compress returns Ok(bytes_written); compress_bytes adds it to its own count
CompressReturn ==
    /\ pc = "compress"
    /\ pos >= Len(input)
    /\ result' = Ok(IF api = "bytes" THEN header_written + bytes_written
                    ELSE bytes_written)
    /\ pc' = "done"
    /\ UNCHANGED <<input, window_size, max_match_len, usize_bytes, api, pos,
                   bytes_written, header_written, out, sink_err, attempts,
                   failed_at, out_at_fail, tokens, consulted, header_calls,
                   header_len, last_match>>

Next ==
    \/ CompressBytesEntry
    \/ CompressStrEntry
    \/ CompressLoop
    \/ CompressReturn

Spec == Init /\ [][Next]_vars

-----------------------------------------------------------------------------
(* find_longest_match on its own: any input, any position inside it.       *)

InitFind ==
    /\ InitCommon
    /\ input \in Inputs \ {<<>>}
    /\ api = "bytes"
    /\ usize_bytes = 8
    /\ pc = "find"
    /\ pos \in 0..(Len(input) - 1)

FindLongestMatch ==
    /\ pc = "find"
    /\ last_match' = match_at(pos, find_longest_match(input, pos, window_size, max_match_len))
    /\ consulted' = consulted \cup {pos}
    /\ pc' = "found"
    /\ UNCHANGED <<input, window_size, max_match_len, usize_bytes, api, pos,
                   bytes_written, header_written, out, sink_err, attempts,
                   failed_at, out_at_fail, tokens, header_calls, header_len,
                   result>>

NextFind == FindLongestMatch

SpecFind == InitFind /\ [][NextFind]_vars

-----------------------------------------------------------------------------
(* The decoder of the format: parse the 10-byte header, then replay the    *)
(* tokens from byte offset 10, copying a reference one byte at a time.     *)

HeaderSize == 10

Corrupt == [ok |-> FALSE, data |-> <<>>]

RECURSIVE copy_bytes(_, _, _)
copy_bytes(data, offset, n) ==
    IF n = 0 THEN data
    ELSE copy_bytes(Append(data, data[Len(data) - offset + 1]), offset, n - 1)

u16_from_le(lo, hi) == lo + 256 * hi

RECURSIVE decode_tokens(_, _, _)
decode_tokens(stream, i, data) ==
    IF i >= Len(stream) THEN [ok |-> TRUE, data |-> data]
    ELSE IF stream[i + 1] = LZ77_TOKEN_LITERAL_MAGIC
         THEN IF i + 2 > Len(stream) THEN Corrupt
              ELSE decode_tokens(stream, i + 2, Append(data, stream[i + 2]))
    ELSE IF stream[i + 1] = LZ77_TOKEN_REFERENCE_MAGIC
         THEN IF i + 5 > Len(stream) THEN Corrupt
              ELSE LET offset == u16_from_le(stream[i + 2], stream[i + 3])
                       length == u16_from_le(stream[i + 4], stream[i + 5])
                   IN  IF offset < 1 \/ offset > Len(data) THEN Corrupt
                       ELSE decode_tokens(stream, i + 5, copy_bytes(data, offset, length))
    ELSE Corrupt

decode(stream) ==
    IF Len(stream) < HeaderSize THEN Corrupt
    ELSE IF SubSeq(stream, 1, Len(LZ77_MAGIC)) # LZ77_MAGIC THEN Corrupt
    ELSE decode_tokens(stream, HeaderSize, <<>>)

-----------------------------------------------------------------------------
(* Reference definitions for the properties of the match finder            *)

\* the candidates find_longest_match is to consider at position p
Candidates(p, ws) == {c \in 0..(p - 1) : p - c <= ws}

\* the cap on a match at p: max_match_len and the bytes left in the input
Cap(inp, p, mml) == Min(mml, Len(inp) - p)

\* length of the common prefix of inp[c..] and inp[p..], capped at cap
CommonPrefix(inp, c, p, cap) ==
    CHOOSE n \in 0..cap :
        /\ \A i \in 0..(n - 1) : inp[c + i + 1] = inp[p + i + 1]
        /\ n < cap => inp[c + n + 1] # inp[p + n + 1]

BestLength(inp, p, ws, mml) ==
    LET lens == {CommonPrefix(inp, c, p, Cap(inp, p, mml)) : c \in Candidates(p, ws)} \cup {0}
    IN  CHOOSE n \in lens : \A k \in lens : k <= n

\* offsets of the candidates that reach the best length
BestOffsets(inp, p, ws, mml) ==
    {p - c : c \in {d \in Candidates(p, ws) :
                      CommonPrefix(inp, d, p, Cap(inp, p, mml)) = BestLength(inp, p, ws, mml)}}

RefTokens == {i \in DOMAIN tokens : tokens[i].kind = "ref"}

\* the bytes of the header as write_header issues them
HeaderBytes == Flatten(write_header_calls(window_size, max_match_len, usize_bytes))

-----------------------------------------------------------------------------
(* Claims *)

\* C1: round trip. When compress_bytes returns Ok for window_size and
\* max_match_len of at least 1, decoding the bytes in the sink (10-byte header,
\* tokens from offset 10) gives back exactly the input.
RoundTrip ==
    (pc = "done" /\ api = "bytes" /\ result.state = "ok"
        /\ window_size >= 1 /\ max_match_len >= 1)
    => decode(out) = [ok |-> TRUE, data |-> input]

\* C2: the header compress_bytes writes is exactly 10 bytes: the magic, then
\* window_size and max_match_len as 2-byte little-endian integers; the first
\* token starts at output offset 10.
HeaderIsTenBytes ==
    (api = "bytes" /\ header_written = write_header_ok)
    => /\ header_len = 10
       /\ SubSeq(out, 1, header_len)
            = LZ77_MAGIC \o to_le_bytes(window_size, 2) \o to_le_bytes(max_match_len, 2)
       /\ tokens # <<>> =>
            LET first == Flatten(token_calls(tokens[1]))
            IN  /\ Len(out) >= 10 + Len(first)
                /\ SubSeq(out, 11, 10 + Len(first)) = first

\* C3: every public compression operation writes the header exactly once and
\* before any token; for an empty input the output is the header alone.
HeaderOnceBeforeTokens ==
    (tokens # <<>> \/ result.state = "ok")
    => /\ header_calls = 1
       /\ Len(out) >= Len(HeaderBytes)
       /\ SubSeq(out, 1, Len(HeaderBytes)) = HeaderBytes
       /\ (result.state = "ok" /\ input = <<>>) => (tokens = <<>> /\ out = HeaderBytes)

\* C4: when the operation returns Ok(n), n is the number of bytes the sink
\* received during the call.
ReturnedCountIsBytesWritten ==
    result.state = "ok" => result.n = Len(out)

\* C5: every reference token emitted at position pos has
\* 1 <= offset <= min(pos, window_size) and
\* 3 <= length <= min(max_match_len, input.len() - pos); with max_match_len < 3
\* or window_size = 0 no reference token is emitted.
ReferenceBounds ==
    /\ \A i \in RefTokens :
         /\ 1 <= tokens[i].offset
         /\ tokens[i].offset <= Min(tokens[i].pos, window_size)
         /\ 3 <= tokens[i].length
         /\ tokens[i].length <= Min(max_match_len, Len(input) - tokens[i].pos)
    /\ (max_match_len < 3 \/ window_size = 0) => RefTokens = {}

ReferenceBoundsWitness ==
    \E i \in RefTokens :
        /\ tokens[i].pos > window_size
        /\ tokens[i].offset = window_size
        /\ tokens[i].length = max_match_len

\* C6: a reference token at pos with length L and pos + L < input.len() is
\* immediately followed by a literal token carrying input[pos + L], emitted
\* without a match search at pos + L; no two reference tokens are adjacent; a
\* reference is the last token of a finished run only when it ends at the end
\* of the input. (Token sequences cut short by a sink failure are not covered.)
LiteralAfterMatch ==
    /\ \A i \in RefTokens : (i + 1) \notin RefTokens
    /\ sink_err = "none" =>
         \A i \in RefTokens :
            LET np == tokens[i].pos + tokens[i].length
            IN  IF np < Len(input)
                THEN /\ i < Len(tokens)
                     /\ tokens[i + 1].kind = "lit"
                     /\ tokens[i + 1].pos = np
                     /\ tokens[i + 1].byte = input[np + 1]
                     /\ np \notin consulted
                ELSE /\ i = Len(tokens)
                     /\ np = Len(input)

LiteralAfterMatchWitness ==
    /\ result.state = "ok"
    /\ \E i \in RefTokens :
         /\ i + 2 <= Len(tokens)
         /\ tokens[i + 1].kind = "lit"
         /\ tokens[i + 1].pos = tokens[i].pos + tokens[i].length

\* C7 as stated: among the candidates that reach the maximal match length,
\* find_longest_match returns the smallest offset.
TieBreakSmallestOffset ==
    (pc = "found" /\ last_match.length >= 1)
    => \A o \in BestOffsets(input, pos, window_size, max_match_len) :
          last_match.offset <= o

\* C7 as amended: among the candidates that reach the maximal match length,
\* find_longest_match returns the largest offset (the first candidate of the
\* left-to-right scan, the one farthest from pos).
TieBreakLargestOffset ==
    (pc = "found" /\ last_match.length >= 1)
    => /\ last_match.offset \in BestOffsets(input, pos, window_size, max_match_len)
       /\ \A o \in BestOffsets(input, pos, window_size, max_match_len) :
             last_match.offset >= o

TieBreakWitness ==
    /\ pc = "found"
    /\ last_match.length >= LZ77_MIN_MATCH_LEN
    /\ Cardinality(BestOffsets(input, pos, window_size, max_match_len)) >= 2

\* C8: once a write to the sink has failed, the operation has returned that
\* same error, no write was attempted after the failed one, and the sink holds
\* exactly what it held when the failing write returned.
WriteFailureAborts ==
    sink_err # "none"
    => /\ pc = "done"
       /\ result = Err(sink_err)
       /\ attempts = failed_at
       /\ out = out_at_fail

WriteFailureWitness ==
    /\ sink_err # "none"
    /\ api = "bytes"
    /\ RefTokens # {}
    /\ Len(out) > header_len + Len(Flatten(tokens_calls(tokens)))

SentinelBelowMinimum ==
    (pc = "found"
        /\ BestLength(input, pos, window_size, max_match_len) < LZ77_MIN_MATCH_LEN)
    => (last_match.offset = 0 /\ last_match.length = 0)

====
